---- MODULE Spec2Model ----
(***************************************************************************)
(* Model of the gravitational simulation of src/src/main.rs: the Planet    *)
(* record, Planet::calculate_force, Planet::update_position and the frame  *)
(* loop of main.                                                           *)
(*                                                                         *)
(* f64 is modelled as a bounded saturating number line: the finite values  *)
(* are the integers of -MaxF..MaxF, every result is rounded towards zero   *)
(* to an integer, a result beyond MaxF in magnitude is +inf or -inf, and   *)
(* the invalid operations (inf-inf, 0*inf, inf/inf, 0/0, sqrt of a         *)
(* negative) give NaN, which every operation propagates.  The physical     *)
(* constants are in model units.  Signed zeros are not distinguished.      *)
(* radius and color are rendering hints that the simulation never reads    *)
(* and are left out of the Planet record.                                  *)
(***************************************************************************)
EXTENDS Integers, Sequences, FiniteSets

\* ------------------------------------------------------------------ bounds
\* largest finite magnitude of the modelled f64
MaxF == 1000
\* number of frames of the main loop that are explored
MaxSteps == 2
\* number of bodies in the planets vector
NumPlanets == 3
\* denominator of the fixed-point results of cos and sin
TrigUnit == 10

\* --------------------------------------------------------------- constants
G == 1
SOFTENING_FACTOR == 2
TIMESTEP == 2

\* ----------------------------------------------------------- evaluation
\* Op(v), Op(v, w): the same value as the plain application, with each
\* argument evaluated once and then bound (the model checker evaluates an
\* operator argument or a LET definition anew at every use of its name).
Eval(v, Op(_)) == CHOOSE r \in {Op(x) : x \in {v}} : TRUE

Eval2(v, w, Op(_, _)) == CHOOSE r \in {Op(x, y) : x \in {v}, y \in {w}} : TRUE

\* ------------------------------------------------------------ f64 values
PInf == MaxF + 1
NInf == -(MaxF + 1)
NaN == MaxF + 2

is_finite(a) == a >= -MaxF /\ a <= MaxF

IsInf(a) == a = PInf \/ a = NInf

Sign(a) == IF a < 0 THEN -1 ELSE IF a > 0 THEN 1 ELSE 0

Abs(a) == IF a < 0 THEN -a ELSE a

\* rounding of an exact integer result: overflow saturates to an infinity
Norm(n) == IF n > MaxF THEN PInf ELSE IF n < -MaxF THEN NInf ELSE n

\* integer quotient rounded towards zero (b # 0)
TruncDiv(a, b) == Sign(a) * Sign(b) * (Abs(a) \div Abs(b))

FNeg(a) == IF a = NaN THEN NaN ELSE -a

FAdd(a, b) ==
    IF a = NaN \/ b = NaN THEN NaN
    ELSE IF IsInf(a) THEN (IF IsInf(b) /\ b # a THEN NaN ELSE a)
    ELSE IF IsInf(b) THEN b
    ELSE Norm(a + b)

FSub(a, b) == FAdd(a, FNeg(b))

FMul(a, b) ==
    IF a = NaN \/ b = NaN THEN NaN
    ELSE IF IsInf(a) \/ IsInf(b)
         THEN (IF a = 0 \/ b = 0 THEN NaN
               ELSE IF Sign(a) * Sign(b) > 0 THEN PInf ELSE NInf)
    ELSE Norm(a * b)

FDiv(a, b) ==
    IF a = NaN \/ b = NaN THEN NaN
    ELSE IF IsInf(a) THEN (IF IsInf(b) THEN NaN
                           ELSE IF Sign(a) * (IF b < 0 THEN -1 ELSE 1) > 0
                                THEN PInf ELSE NInf)
    ELSE IF IsInf(b) THEN 0
    ELSE IF b = 0 THEN (IF a = 0 THEN NaN ELSE IF a > 0 THEN PInf ELSE NInf)
    ELSE Norm(TruncDiv(a, b))

\* f64::powi(2)
powi2(a) == FMul(a, a)

\* f64::mul_add(a, b): self * a + b with a single rounding
mul_add(self, a, b) ==
    IF is_finite(self) /\ is_finite(a) /\ is_finite(b)
    THEN Norm(self * a + b)
    ELSE FAdd(FMul(self, a), b)

RECURSIVE ISqrtBS(_, _, _)
\* largest r with r*r <= n, searched in lo..hi-1 (lo*lo <= n < hi*hi)
ISqrtBS(n, lo, hi) ==
    IF hi - lo <= 1 THEN lo
    ELSE IF ((lo + hi) \div 2) * ((lo + hi) \div 2) <= n
         THEN ISqrtBS(n, (lo + hi) \div 2, hi)
         ELSE ISqrtBS(n, lo, (lo + hi) \div 2)

ISqrt(n) == ISqrtBS(n, 0, IF n + 1 < 46340 THEN n + 1 ELSE 46340)

\* f64::sqrt
sqrt(a) ==
    IF a = NaN \/ a < 0 THEN NaN
    ELSE IF a = PInf THEN PInf
    ELSE ISqrt(a)

\* An angle is kept as the direction <<dx, dy>> it points to; <<0, 0>> is
\* the NaN angle.
NaNAngle == <<0, 0>>

\* f64::atan2: self is y, other is x
atan2(y, x) ==
    IF y = NaN \/ x = NaN THEN NaNAngle
    ELSE IF IsInf(x) \/ IsInf(y)
         THEN << (IF IsInf(x) THEN Sign(x) ELSE 0),
                 (IF IsInf(y) THEN Sign(y) ELSE 0) >>
    ELSE IF x = 0 /\ y = 0 THEN <<1, 0>>
    ELSE <<x, y>>

Hypot(theta) == ISqrt((theta[1] * theta[1] + theta[2] * theta[2]) * TrigUnit * TrigUnit)

\* f64::cos and f64::sin, in units of 1/TrigUnit
cos(theta) ==
    IF theta = NaNAngle THEN NaN
    ELSE TruncDiv(theta[1] * TrigUnit * TrigUnit, Hypot(theta))

sin(theta) ==
    IF theta = NaNAngle THEN NaN
    ELSE TruncDiv(theta[2] * TrigUnit * TrigUnit, Hypot(theta))

\* product of a cos/sin result (units of 1/TrigUnit) and an f64
TrigMul(c, f) ==
    IF c = NaN \/ f = NaN THEN NaN
    ELSE IF IsInf(f) THEN (IF c = 0 THEN NaN
                           ELSE IF Sign(c) * Sign(f) > 0 THEN PInf ELSE NInf)
    ELSE Norm(TruncDiv(c * f, TrigUnit))

\* ---------------------------------------------------------------- Planet
\* Planet::new: empty orbit, sun false, distance_to_sun 0, zero velocity
new(x, y, mass) ==
    [x |-> x, y |-> y, mass |-> mass, orbit |-> <<>>, sun |-> FALSE,
     distance_to_sun |-> 0, x_vel |-> 0, y_vel |-> 0]

\* mutant of calculate_force: the softening term is missing from the distance
calculate_force_unsoftened(self, other) ==
    Eval2(FSub(other.x, self.x), FSub(other.y, self.y), LAMBDA distance_x, distance_y :
    Eval(FAdd(powi2(distance_x), powi2(distance_y)),
         LAMBDA distance_squared :
    Eval(sqrt(distance_squared), LAMBDA distance :
    Eval2(FDiv(FMul(FMul(G, self.mass), other.mass), powi2(distance)),
          atan2(distance_y, distance_x), LAMBDA force, theta :
    Eval2(TrigMul(cos(theta), force), TrigMul(sin(theta), force), LAMBDA force_x, force_y :
    <<force_x, force_y, distance>>)))))

\* Planet::calculate_force: <<force_x, force_y, distance>>
calculate_force(self, other) ==
    Eval2(FSub(other.x, self.x), FSub(other.y, self.y), LAMBDA distance_x, distance_y :
    Eval(FAdd(FAdd(powi2(distance_x), powi2(distance_y)), powi2(SOFTENING_FACTOR)),
         LAMBDA distance_squared :
    Eval(sqrt(distance_squared), LAMBDA distance :
    Eval2(FDiv(FMul(FMul(G, self.mass), other.mass), powi2(distance)),
          atan2(distance_y, distance_x), LAMBDA force, theta :
    Eval2(TrigMul(cos(theta), force), TrigMul(sin(theta), force), LAMBDA force_x, force_y :
    <<force_x, force_y, distance>>)))))

\* the planets vector, the clone taken at the head of a frame, the index of
\* the for loop, the position in main, the number of frames completed, and
\* what update_position wrote to stderr for each body, one entry per call
VARIABLES planets, planets_clone, i, pc, frames, stderr

vars == <<planets, planets_clone, i, pc, frames, stderr>>

Bodies == 1..NumPlanets

\* `self as *const _ != other as *const _`: self lives in planets and every
\* element of others in the freshly concatenated vector, so the addresses
\* always differ
SamePointer(self, other) == FALSE

RECURSIVE ForceLoopNoSkip(_, _, _, _)
\* mutant of ForceLoop: a non-finite pairwise force is summed like any other
ForceLoopNoSkip(self, others, k, acc) ==
    IF k > Len(others) THEN acc
    ELSE Eval2(others[k], calculate_force(self, others[k]), LAMBDA other, f :
             ForceLoopNoSkip(self, others, k + 1,
                             [acc EXCEPT !.total_force_x = FAdd(@, f[1]),
                                         !.total_force_y = FAdd(@, f[2]),
                                         !.distance_to_sun =
                                             IF other.sun THEN f[3] ELSE @]))

RECURSIVE ForceLoopBreak(_, _, _, _)
\* mutant of ForceLoop: a non-finite pairwise force ends the loop (break
\* where the code has continue)
ForceLoopBreak(self, others, k, acc) ==
    IF k > Len(others) THEN acc
    ELSE Eval2(others[k], calculate_force(self, others[k]), LAMBDA other, f :
             IF ~is_finite(f[1]) \/ ~is_finite(f[2])
             THEN [acc EXCEPT !.err = Append(@, "force")]
             ELSE ForceLoopBreak(self, others, k + 1,
                                 [acc EXCEPT !.total_force_x = FAdd(@, f[1]),
                                             !.total_force_y = FAdd(@, f[2]),
                                             !.distance_to_sun =
                                                 IF other.sun THEN f[3] ELSE @]))

RECURSIVE ForceLoop(_, _, _, _)
\* the for loop of update_position from its k-th element on; acc holds
\* total_force_x, total_force_y, self.distance_to_sun and the stderr lines
ForceLoop(self, others, k, acc) ==
    IF k > Len(others) THEN acc
    ELSE Eval2(others[k], calculate_force(self, others[k]), LAMBDA other, f :
             IF SamePointer(self, other) THEN ForceLoop(self, others, k + 1, acc)
             ELSE IF ~is_finite(f[1]) \/ ~is_finite(f[2])
                  THEN ForceLoop(self, others, k + 1,
                                 [acc EXCEPT !.err = Append(@, "force")])
             ELSE ForceLoop(self, others, k + 1,
                            [acc EXCEPT !.total_force_x = FAdd(@, f[1]),
                                        !.total_force_y = FAdd(@, f[2]),
                                        !.distance_to_sun =
                                            IF other.sun THEN f[3] ELSE @]))

\* the state of the locals when the for loop of update_position is done
Accumulate(self, others) ==
    ForceLoop(self, others, 1,
              [total_force_x |-> 0, total_force_y |-> 0,
               distance_to_sun |-> self.distance_to_sun, err |-> <<>>])

\* the velocity update of update_position
Accelerate(vel, total_force, mass) ==
    FAdd(vel, FMul(FDiv(total_force, mass), TIMESTEP))

\* mutant of VelocityFault: the velocity check is missing
VelocityFaultIgnored(x_vel, y_vel) == FALSE

\* the check `!self.x_vel.is_finite() || !self.y_vel.is_finite()`
VelocityFault(x_vel, y_vel) == ~is_finite(x_vel) \/ ~is_finite(y_vel)

\* mutant of NewPosition: explicit Euler, the position advances by the
\* velocity self had at entry
NewPositionExplicit(self, x_vel, y_vel) ==
    <<mul_add(self.x_vel, TIMESTEP, self.x), mul_add(self.y_vel, TIMESTEP, self.y)>>

\* <<new_x, new_y>>: self.x_vel.mul_add(TIMESTEP, self.x) and its y twin,
\* taken after the velocities of self were updated to x_vel and y_vel
NewPosition(self, x_vel, y_vel) ==
    <<mul_add(x_vel, TIMESTEP, self.x), mul_add(y_vel, TIMESTEP, self.y)>>

\* the check `new_x.is_finite() && new_y.is_finite()`
PositionOk(pos) == is_finite(pos[1]) /\ is_finite(pos[2])

\* the if of update_position that assigns self.x and self.y
Commit(p, pos) ==
    Eval(pos, LAMBDA np : IF PositionOk(np) THEN [p EXCEPT !.x = np[1], !.y = np[2]] ELSE p)

\* mutant of Push: the trail keeps its latest entry only
PushCapped(p) ==
    Eval(p, LAMBDA q :
        [q EXCEPT !.orbit = Append(IF Len(@) >= 1 THEN Tail(@) ELSE @, <<q.x, q.y>>)])

\* self.orbit.push((self.x, self.y))
Push(p) == Eval(p, LAMBDA q : [q EXCEPT !.orbit = Append(@, <<q.x, q.y>>)])

\* mutant of update_position: the orbit entry is pushed before the new
\* position is assigned
update_position_push_first(self, others) ==
    Eval(Accumulate(self, others), LAMBDA acc :
    Eval2(Accelerate(self.x_vel, acc.total_force_x, self.mass),
          Accelerate(self.y_vel, acc.total_force_y, self.mass), LAMBDA x_vel, y_vel :
    Eval([self EXCEPT !.distance_to_sun = acc.distance_to_sun,
                      !.x_vel = x_vel, !.y_vel = y_vel], LAMBDA moved :
        IF VelocityFault(x_vel, y_vel)
        THEN [planet |-> moved, err |-> Append(acc.err, "velocity")]
        ELSE Eval(NewPosition(self, x_vel, y_vel), LAMBDA pos :
                 [planet |-> Commit(Push(moved), pos),
                  err |-> IF PositionOk(pos) THEN acc.err
                          ELSE Append(acc.err, "position")]))))

\* Planet::update_position: the planet after the call and the stderr lines
update_position(self, others) ==
    Eval(Accumulate(self, others), LAMBDA acc :
    Eval2(Accelerate(self.x_vel, acc.total_force_x, self.mass),
          Accelerate(self.y_vel, acc.total_force_y, self.mass), LAMBDA x_vel, y_vel :
    Eval([self EXCEPT !.distance_to_sun = acc.distance_to_sun,
                      !.x_vel = x_vel, !.y_vel = y_vel], LAMBDA moved :
        IF VelocityFault(x_vel, y_vel)
        THEN [planet |-> moved, err |-> Append(acc.err, "velocity")]
        ELSE Eval(NewPosition(self, x_vel, y_vel), LAMBDA pos :
                 [planet |-> Push(Commit(moved, pos)),
                  err |-> IF PositionOk(pos) THEN acc.err
                          ELSE Append(acc.err, "position")]))))

\* [&planets_clone[..i], &planets_clone[i + 1..]].concat(), i counted from 1
Others(snapshot, k) ==
    SubSeq(snapshot, 1, k - 1) \o SubSeq(snapshot, k + 1, Len(snapshot))

\* mutant of OthersView: the others are read from the vector being updated
OthersViewLive(k) == Others(planets, k)

\* the others vector that main hands to update_position for planet k
OthersView(k) == Others(planets_clone, k)

\* ------------------------------------------------------------------- Init
\* a planet as main builds one: Planet::new, then the sun flag and the
\* velocity fields assigned
Body(x, y, x_vel, y_vel, mass, sun) ==
    [new(x, y, mass) EXCEPT !.x_vel = x_vel, !.y_vel = y_vel, !.sun = sun]

\* mass of a body heavy enough for G * mass * mass to overflow
HeavyMass == ISqrt(MaxF) + 9

\* the bodies the planets vector is filled from
Candidates ==
    { Body(0, 0, 0, 0, HeavyMass, TRUE),
      Body(-3, 0, 0, 1, 1, FALSE),
      Body(1, 0, 0, -1, 5, TRUE),
      Body(MaxF - 1, 0, 3, 0, 1, FALSE),
      Body(MaxF - 2, 0, 0, 0, 5, TRUE),
      Body(2, 1, PInf, 0, 1, FALSE) }

Init ==
    /\ planets \in [Bodies -> Candidates]
    /\ planets_clone = <<>>
    /\ i = 1
    /\ pc = "frame"
    /\ frames = 0
    /\ stderr = [b \in Bodies |-> <<>>]

\* ---------------------------------------------------------------- actions
\* the head of the while loop with the window open: clone the planets
Snapshot ==
    /\ pc = "frame"
    /\ frames < MaxSteps
    /\ planets_clone' = planets
    /\ i' = 1
    /\ pc' = "update"
    /\ UNCHANGED <<planets, frames, stderr>>

\* mutant of UpdateBody: a body whose latest update wrote a fault is left
\* out of the frame
UpdateBodySticky ==
    /\ pc = "update"
    /\ i <= NumPlanets
    /\ \E r \in {update_position(planets[i], OthersView(i))} :
          LET halted == Len(stderr[i]) > 0 /\ stderr[i][Len(stderr[i])] # <<>>
          IN /\ planets' = IF halted THEN planets ELSE [planets EXCEPT ![i] = r.planet]
             /\ stderr' = [stderr EXCEPT ![i] =
                              Append(@, IF halted THEN @[Len(@)] ELSE r.err)]
    /\ i' = i + 1
    /\ pc' = IF i = NumPlanets THEN "draw" ELSE "update"
    /\ UNCHANGED <<planets_clone, frames>>

\* one iteration of the for loop over planets.iter_mut().enumerate()
UpdateBody ==
    /\ pc = "update"
    /\ i <= NumPlanets
    /\ \E r \in {update_position(planets[i], OthersView(i))} :
          /\ planets' = [planets EXCEPT ![i] = r.planet]
          /\ stderr' = [stderr EXCEPT ![i] = Append(@, r.err)]
    /\ i' = i + 1
    /\ pc' = IF i = NumPlanets THEN "draw" ELSE "update"
    /\ UNCHANGED <<planets_clone, frames>>

\* clear_buffer, draw every planet, update the window, sleep: reads only
Draw ==
    /\ pc = "draw"
    /\ pc' = "frame"
    /\ frames' = frames + 1
    /\ UNCHANGED <<planets, planets_clone, i, stderr>>

\* the window is closed or Escape is down: the while loop ends
Exit ==
    /\ pc = "frame"
    /\ pc' = "exit"
    /\ UNCHANGED <<planets, planets_clone, i, frames, stderr>>

Next == Snapshot \/ UpdateBody \/ Draw \/ Exit

Spec == Init /\ [][Next]_vars

\* ----------------------------------------------------------------- claims
\* body b has been through update_position in the frame of planets_clone
Updated(b) == planets_clone # <<>> /\ ~(pc = "update" /\ b >= i)

\* the last step of main was the call of update_position on body b
JustUpdated(b) ==
    /\ planets_clone # <<>>
    /\ \/ pc = "update" /\ i = b + 1
       \/ pc = "draw" /\ b = NumPlanets

\* the state body b had when the frame was entered
Entry(b) == planets_clone[b]

\* what the latest update_position of body b wrote to stderr
LastErr(b) == stderr[b][Len(stderr[b])]

Has(err, line) == \E k \in 1..Len(err) : err[k] = line

FiniteVelocity(p) == is_finite(p.x_vel) /\ is_finite(p.y_vel)

FinitePosition(p) == is_finite(p.x) /\ is_finite(p.y)

\* C1: within a frame every body that has been updated holds the result of
\* update_position on its own entry state and the entry states of the
\* others, and every body not yet updated still holds its entry state: no
\* update reads what another body committed earlier in the same frame.
C1_EntrySnapshotOnly ==
    planets_clone # <<>> =>
        \A b \in Bodies :
            IF Updated(b)
            THEN planets[b] = update_position(Entry(b), Others(planets_clone, b)).planet
            ELSE planets[b] = Entry(b)

\* C1 witness: a frame is complete and for some body the update would have
\* come out differently had it read the bodies updated before it.
C1_Witness ==
    /\ pc = "draw"
    /\ \E b \in Bodies :
          /\ b > 1
          /\ update_position(Entry(b), Others(planets, b)).planet # planets[b]

\* C2 (as claimed): after an update whose velocity is finite and whose
\* tentative new position is not, position and orbit are those of the entry
\* state and the velocity is the accumulated one.
C2_PositionFaultFreezesTrail ==
    \A b \in Bodies :
        (/\ Updated(b)
         /\ FiniteVelocity(planets[b])
         /\ ~PositionOk(NewPosition(Entry(b), planets[b].x_vel, planets[b].y_vel)))
        => /\ planets[b].x = Entry(b).x
           /\ planets[b].y = Entry(b).y
           /\ planets[b].orbit = Entry(b).orbit
           /\ planets[b].x_vel =
                  Accelerate(Entry(b).x_vel,
                             Accumulate(Entry(b), Others(planets_clone, b)).total_force_x,
                             Entry(b).mass)

\* C3: after an update that left a non-finite velocity component, position
\* and orbit are those of the entry state, and the for loop goes on to the
\* bodies that remain.
C3_VelocityFaultFreezes ==
    /\ pc = "update" => i \in Bodies
    /\ \A b \in Bodies :
          (Updated(b) /\ ~FiniteVelocity(planets[b]))
          => /\ planets[b].x = Entry(b).x
             /\ planets[b].y = Entry(b).y
             /\ planets[b].orbit = Entry(b).orbit
             /\ Has(LastErr(b), "velocity")

\* C3 witness: a body was updated to a non-finite velocity while bodies
\* after it in the vector are still to be updated.
C3_Witness ==
    /\ pc = "update"
    /\ \E b \in Bodies : Updated(b) /\ ~FiniteVelocity(planets[b]) /\ b < i

IsPrefix(s, t) == Len(s) <= Len(t) /\ SubSeq(t, 1, Len(s)) = s

\* no update_position of body b has written a fault to stderr so far
NoFault(b) == \A k \in 1..Len(stderr[b]) : stderr[b][k] = <<>>

\* C4: no step removes, reorders or overwrites an orbit entry; an update
\* without a fault appends exactly the position it committed; and a body
\* that has had N updates, none of them with a fault, has an orbit of
\* length N (the orbit is empty at construction).
C4_TrailAppendOnly ==
    /\ [](\A b \in Bodies : NoFault(b) => Len(planets[b].orbit) = Len(stderr[b]))
    /\ [][\A b \in Bodies :
            /\ IsPrefix(planets[b].orbit, planets'[b].orbit)
            /\ (stderr'[b] # stderr[b] /\ stderr'[b][Len(stderr'[b])] = <<>>)
               => planets'[b].orbit =
                      Append(planets[b].orbit, <<planets'[b].x, planets'[b].y>>)]_vars

\* C4 witness: a body went through two updates without a fault and holds
\* two different positions in its orbit.
C4_Witness ==
    \E b \in Bodies :
        /\ Len(stderr[b]) = 2
        /\ NoFault(b)
        /\ Len(planets[b].orbit) = 2
        /\ planets[b].orbit[1] # planets[b].orbit[2]

FiniteBody(p) == FinitePosition(p) /\ FiniteVelocity(p)

\* C5: a body whose position and velocity are finite keeps them finite in
\* every step, whatever the other bodies hold (a non-finite velocity in
\* particular), and every frame that was started takes every body through
\* update_position.
C5_NonFiniteContained ==
    /\ [](/\ pc = "update" => i \in Bodies
          /\ pc = "draw" => \A b \in Bodies : Len(stderr[b]) = frames + 1)
    /\ [][\A b \in Bodies : FiniteBody(planets[b]) => FiniteBody(planets'[b])]_vars

\* C5 witness: two frames are complete, one body holds a non-finite
\* velocity, and every other body is finite and has moved in both frames.
C5_Witness ==
    /\ pc = "frame"
    /\ frames >= 2
    /\ \E c \in Bodies :
          /\ ~FiniteVelocity(planets[c])
          /\ \A b \in Bodies \ {c} :
                /\ FiniteBody(planets[b])
                /\ Len(planets[b].orbit) = frames
                /\ planets[b].orbit[1] # planets[b].orbit[2]

\* sqrt(dx^2 + dy^2 + s^2) between the positions of p and q
SoftenedDistance(p, q) ==
    sqrt(FAdd(FAdd(powi2(FSub(q.x, p.x)), powi2(FSub(q.y, p.y))),
              powi2(SOFTENING_FACTOR)))

FinitePair(f) == is_finite(f[1]) /\ is_finite(f[2])

\* the positions in others of the bodies flagged sun
Anchors(others) == {k \in 1..Len(others) : others[k].sun}

\* the anchors whose pairwise force on self is finite in both components
ValidAnchors(self, others) ==
    {k \in Anchors(others) : FinitePair(calculate_force(self, others[k]))}

Max(S) == CHOOSE m \in S : \A n \in S : n <= m

\* C6 (as claimed): after the update of a body that has an anchor among the
\* others, distance_to_sun is the softened distance to the last anchor.
C6_AnchorDistanceAlways ==
    \A b \in Bodies :
        LET others == Others(planets_clone, b)
        IN (Updated(b) /\ Anchors(others) # {})
           => planets[b].distance_to_sun =
                  SoftenedDistance(Entry(b), others[Max(Anchors(others))])

\* C6 (amended): after the update of a body, distance_to_sun is the softened
\* distance between the entry positions of the body and of the last anchor
\* whose pairwise force was finite; without such an anchor it keeps the
\* value it had at entry.
C6_AnchorDistanceFinitePair ==
    \A b \in Bodies :
        LET others == Others(planets_clone, b)
            valid == ValidAnchors(Entry(b), others)
        IN Updated(b)
           => planets[b].distance_to_sun =
                  IF valid = {} THEN Entry(b).distance_to_sun
                  ELSE SoftenedDistance(Entry(b), others[Max(valid)])

\* C6 witness: an updated body has two anchors with finite forces at
\* different softened distances and holds the distance to the later one.
C6_Witness ==
    \E b \in Bodies :
        LET others == Others(planets_clone, b)
            valid == ValidAnchors(Entry(b), others)
        IN /\ Updated(b)
           /\ \E k1, k2 \in valid :
                 /\ k1 < k2
                 /\ k2 = Max(valid)
                 /\ SoftenedDistance(Entry(b), others[k1])
                        # SoftenedDistance(Entry(b), others[k2])
                 /\ planets[b].distance_to_sun = SoftenedDistance(Entry(b), others[k2])
                 /\ is_finite(planets[b].distance_to_sun)

RECURSIVE PairForces(_, _)
\* the pairwise forces on self, in the order of others
PairForces(self, others) ==
    Eval(others, LAMBDA os :
        IF os = <<>> THEN <<>>
        ELSE Append(PairForces(self, SubSeq(os, 1, Len(os) - 1)),
                    calculate_force(self, os[Len(os)])))

RECURSIVE SumComponent(_, _, _)
\* f64 sum, from 0 and from the left, of component c of the first n of fs
SumComponent(fs, c, n) ==
    IF n = 0 THEN 0 ELSE FAdd(SumComponent(fs, c, n - 1), fs[n][c])

\* <<sum of the x components, sum of the y components>> of the pairs of fs
\* that are finite in both components
SumFinite(fs) ==
    Eval(SelectSeq(fs, FinitePair), LAMBDA kept :
        <<SumComponent(kept, 1, Len(kept)), SumComponent(kept, 2, Len(kept)), Len(kept)>>)

\* C7: when update_position has just run on a body, the totals it
\* accumulated over the entry states of the others are the sums of the
\* pairwise forces that are finite in both components, one stderr line was
\* written per discarded pair, and the velocity committed is the entry
\* velocity plus that total / mass * TIMESTEP.
C7_FinitePairsSummed ==
    \A b \in Bodies :
        JustUpdated(b) =>
            \A all \in {PairForces(Entry(b), Others(planets_clone, b))} :
                \A sum \in {SumFinite(all)},
                   acc \in {Accumulate(Entry(b), Others(planets_clone, b))} :
                    /\ acc.total_force_x = sum[1]
                    /\ acc.total_force_y = sum[2]
                    /\ Len(acc.err) = Len(all) - sum[3]
                    /\ Len(LastErr(b)) >= Len(all) - sum[3]
                    /\ planets[b].x_vel =
                           FAdd(Entry(b).x_vel,
                                FMul(FDiv(sum[1], Entry(b).mass), TIMESTEP))
                    /\ planets[b].y_vel =
                           FAdd(Entry(b).y_vel,
                                FMul(FDiv(sum[2], Entry(b).mass), TIMESTEP))

\* C7 witness: an updated body had a pair discarded before a pair with a
\* finite, non-zero force, and its velocity changed.
C7_Witness ==
    \E b \in Bodies :
        /\ JustUpdated(b)
        /\ \E all \in {PairForces(Entry(b), Others(planets_clone, b))} :
            /\ \E k1, k2 \in 1..Len(all) :
                  /\ k1 < k2
                  /\ ~FinitePair(all[k1])
                  /\ FinitePair(all[k2])
                  /\ all[k2][1] # 0
            /\ planets[b].x_vel # Entry(b).x_vel
            /\ FiniteVelocity(planets[b])

\* the latest update of body b is that of the current frame and the one
\* before it wrote a fault (a discarded pair, a velocity or a position fault)
DegenerateBefore(b) ==
    /\ Updated(b)
    /\ Len(stderr[b]) >= 2
    /\ stderr[b][Len(stderr[b]) - 1] # <<>>

\* everything update_position reads for body b is finite: its own position,
\* velocity and mass, and the position and mass of every other body
InputsFinite(b) ==
    /\ FiniteBody(Entry(b))
    /\ is_finite(Entry(b).mass)
    /\ \A c \in Bodies \ {b} : FinitePosition(Entry(c)) /\ is_finite(Entry(c).mass)

\* what a stable update of body b commits in this frame: the pairwise
\* forces, the velocity <<x_vel, y_vel>> and the position <<x, y>>
StableStep(b) ==
    Eval(PairForces(Entry(b), Others(planets_clone, b)), LAMBDA all :
    Eval(<< FAdd(Entry(b).x_vel,
                 FMul(FDiv(SumComponent(all, 1, Len(all)), Entry(b).mass), TIMESTEP)),
            FAdd(Entry(b).y_vel,
                 FMul(FDiv(SumComponent(all, 2, Len(all)), Entry(b).mass), TIMESTEP)) >>,
         LAMBDA vel :
        [forces |-> all,
         vel |-> vel,
         pos |-> << mul_add(vel[1], TIMESTEP, Entry(b).x),
                    mul_add(vel[2], TIMESTEP, Entry(b).y) >>]))

\* the update of body b in this frame was the stable one st
StableUpdate(b, st) ==
    /\ LastErr(b) = <<>>
    /\ planets[b].x_vel = st.vel[1]
    /\ planets[b].y_vel = st.vel[2]
    /\ FiniteVelocity(planets[b])
    /\ planets[b].x = st.pos[1]
    /\ planets[b].y = st.pos[2]
    /\ planets[b].orbit = Append(Entry(b).orbit, st.pos)

\* what the update st computes is finite: every pairwise force, the
\* accumulated velocity and the tentative position
ComputedFinite(st) ==
    /\ \A k \in 1..Len(st.forces) : FinitePair(st.forces[k])
    /\ is_finite(st.vel[1]) /\ is_finite(st.vel[2])
    /\ PositionOk(st.pos)

C9_SemiImplicitEuler ==
    \A b \in Bodies :
        (/\ Updated(b)
         /\ ~Has(LastErr(b), "velocity")
         /\ ~Has(LastErr(b), "position"))
        => \A acc \in {Accumulate(Entry(b), Others(planets_clone, b))} :
              /\ planets[b].x_vel =
                     FAdd(Entry(b).x_vel,
                          FMul(FDiv(acc.total_force_x, Entry(b).mass), TIMESTEP))
              /\ planets[b].y_vel =
                     FAdd(Entry(b).y_vel,
                          FMul(FDiv(acc.total_force_y, Entry(b).mass), TIMESTEP))
              /\ planets[b].x = mul_add(planets[b].x_vel, TIMESTEP, Entry(b).x)
              /\ planets[b].y = mul_add(planets[b].y_vel, TIMESTEP, Entry(b).y)

\* C9 witness: an update without a fault changed the velocity, and the
\* position it committed is not the one the entry velocity leads to.
C9_Witness ==
    \E b \in Bodies :
        /\ Updated(b)
        /\ LastErr(b) = <<>>
        /\ planets[b].x_vel # Entry(b).x_vel
        /\ planets[b].x # mul_add(Entry(b).x_vel, TIMESTEP, Entry(b).x)
        /\ planets[b].x # Entry(b).x

\* C10: the last orbit entry of a body is its position, between frames the
\* orbit is no longer than the number of frames completed, and a step that
\* changes the position of a body appends one entry to its orbit.
C10_TrailTracksPosition ==
    /\ [](\A b \in Bodies :
            /\ planets[b].orbit # <<>>
               => planets[b].orbit[Len(planets[b].orbit)] = <<planets[b].x, planets[b].y>>
            /\ pc \in {"frame", "exit"} => Len(planets[b].orbit) <= frames)
    /\ [][\A b \in Bodies :
            (planets'[b].x # planets[b].x \/ planets'[b].y # planets[b].y)
            => Len(planets'[b].orbit) = Len(planets[b].orbit) + 1]_vars

\* C10 witness: between frames a body holds an orbit of two different
\* entries, and another body holds fewer entries than frames completed.
C10_Witness ==
    /\ pc = "frame"
    /\ frames = 2
    /\ \E b, c \in Bodies :
          /\ Len(planets[b].orbit) = 2
          /\ planets[b].orbit[1] # planets[b].orbit[2]
          /\ Len(planets[c].orbit) < frames

====
